---- MODULE Spec2Model ----
(***************************************************************************)
(* Model of models/vto.py: generate_vto_image (the image composition       *)
(* request adapter) and call_virtual_try_on (the legacy-shape adapter).    *)
(* One caller issues a bounded series of invocations; each invocation is   *)
(* followed statement by statement.  Every call to a collaborator (the     *)
(* URL->URI converter, the genai client, the storage writer) is appended   *)
(* to the invocation's event log.                                          *)
(***************************************************************************)
EXTENDS Integers, Sequences, FiniteSets, TLC

\* ---------------------------------------------------------------- bounds
MaxCalls == 2       \* invocations issued by the caller
MaxImages == 3      \* images in one service response

\* ------------------------------------------------------- program constants
DefaultBaseSteps == 32
DefaultSampleCount == 1

VTO_MODEL_ID == "cfg.VTO_MODEL_ID"
ResultFolder == "vto_results"
ResultMime == "image/png"

\* error kinds (the source raises ValueError for the empty result)
ConversionError == "ConversionError"
RemoteServiceError == "RemoteServiceError"
EmptyResultError == "EmptyResultError"
StorageWriteError == "StorageWriteError"
NoError == "none"

\* ------------------------------------------------------------ input values
\* An image reference: its form and the object path it names.  The unset
\* reference (Python None) is the form "none".
NoneRef == [form |-> "none", path |-> ""]

References ==
    { [form |-> "https", path |-> "a"],
      [form |-> "gs", path |-> "b"],
      [form |-> "other", path |-> "x"],
      NoneRef }

SampleCounts == {1, 2}
BaseSteps == {16, DefaultBaseSteps}

\* the sample_count keyword of call_virtual_try_on: given or left out
SampleArgs ==
    { [given |-> FALSE, value |-> 0] } \cup
    { [given |-> TRUE, value |-> n] : n \in SampleCounts }

Bytes == {"b1", "b2"}

RECURSIVE SeqsUpTo(_, _)
SeqsUpTo(S, n) ==
    IF n = 0 THEN { <<>> }
    ELSE LET shorter == SeqsUpTo(S, n - 1)
         IN shorter \cup { Append(s, x) : s \in { t \in shorter : Len(t) = n - 1 }, x \in S }

GeneratedImages == { [data |-> b] : b \in Bytes }

\* what the service may answer: generated_images is None or a list
ServiceResponses ==
    { [none |-> TRUE, images |-> <<>>] } \cup
    { [none |-> FALSE, images |-> s] : s \in SeqsUpTo(GeneratedImages, MaxImages) }

NoResponse == [none |-> TRUE, images |-> <<>>]

\* --------------------------------------------------------- collaborators
\* common.utils.https_url_to_gcs_uri
Recognized(ref) == ref.form \in {"https", "gs"}

https_url_to_gcs_uri(ref) == [form |-> "gs", path |-> ref.path]

\* common.storage.store_to_gcs: the URI of the object written
store_to_gcs(folder, file_name) ==
    [form |-> "gs", folder |-> folder, file_name |-> file_name]

\* uuid.uuid4(): the ctr-th identifier drawn; every draw is a new identifier
uuid4_hoisted(ctr, i) == ctr - i

uuid4(ctr, i) == ctr

\* ------------------------------------------------------ pure helpers
\* f"vto_result_{unique_id}-{i}_.png"
FileName(unique_id, i) ==
    [prefix |-> "vto_result_", unique_id |-> unique_id, index |-> i,
     suffix |-> "_.png"]

\* the request of client.models.recontext_image
RecontextRequest_swapped(person_uri, product_uri, base_steps, sample_count) ==
    [model |-> VTO_MODEL_ID,
     person_image |-> [location |-> person_uri],
     product_images |-> << [product_image |-> [location |-> product_uri]] >>,
     base_steps |-> sample_count,
     number_of_images |-> base_steps]

RecontextRequest(person_uri, product_uri, base_steps, sample_count) ==
    [model |-> VTO_MODEL_ID,
     person_image |-> [location |-> person_uri],
     product_images |-> << [product_image |-> [location |-> product_uri]] >>,
     base_steps |-> base_steps,
     number_of_images |-> sample_count]

\* Python truth value of response.generated_images under "not"
NoImages_none_only(resp) == resp.none

NoImages(resp) == resp.none \/ Len(resp.images) = 0

\* [{"gcsUri": uri} for uri in gcs_uris]
Predictions_reversed(uris) ==
    [k \in 1..Len(uris) |-> [gcsUri |-> uris[Len(uris) + 1 - k]]]

Predictions(uris) == [k \in 1..Len(uris) |-> [gcsUri |-> uris[k]]]

\* the keyword arguments call_virtual_try_on hands to generate_vto_image
InnerArgs_steps(person_image_uri, product_image_uri, sample_count) ==
    [person_gcs_url |-> person_image_uri,
     product_gcs_url |-> product_image_uri,
     sample_count |-> sample_count,
     base_steps |-> 16]

InnerArgs(person_image_uri, product_image_uri, sample_count) ==
    [person_gcs_url |-> person_image_uri,
     product_gcs_url |-> product_image_uri,
     sample_count |-> sample_count,
     base_steps |-> DefaultBaseSteps]

\* gcs_uris.append(gcs_uri)
Collect_twice(uris, uri) == uris \o <<uri, uri>>

Collect_front(uris, uri) == <<uri>> \o uris

Collect(uris, uri) == Append(uris, uri)

\* binding of a keyword parameter that has a default
BindDefault(arg, default) == IF arg.given THEN arg.value ELSE default

\* --------------------------------------------------------------- state
VARIABLES
    pc,              \* position of the caller / the running invocation
    entry,           \* the function the caller invoked
    wargs,           \* the arguments the caller gave call_virtual_try_on
    args,            \* generate_vto_image's parameters
    person_gcs_uri,  \* local of generate_vto_image
    product_gcs_uri, \* local of generate_vto_image
    response,        \* local of generate_vto_image
    i,               \* loop index of enumerate (0-based)
    gcs_uris,        \* local of generate_vto_image
    outcome,         \* how generate_vto_image ended
    wout,            \* how call_virtual_try_on ended
    events,          \* collaborator calls of the current invocation
    uuidCtr,         \* number of identifiers drawn from uuid4 so far
    written,         \* file names handed to store_to_gcs, over all calls
    ncalls           \* invocations issued so far

vars == <<pc, entry, wargs, args, person_gcs_uri, product_gcs_uri, response,
          i, gcs_uris, outcome, wout, events, uuidCtr, written, ncalls>>

NoOutcome == [kind |-> "none", value |-> <<>>, error |-> NoError]
NoEnvelope == [predictions |-> <<>>]
NoWOutcome == [kind |-> "none", value |-> NoEnvelope, error |-> NoError]
NoArgs == [person_gcs_url |-> NoneRef, product_gcs_url |-> NoneRef,
           sample_count |-> 0, base_steps |-> 0]
NoWArgs == [person_image_uri |-> NoneRef, product_image_uri |-> NoneRef,
            sample_count |-> [given |-> FALSE, value |-> 0]]

Init ==
    /\ pc = "idle"
    /\ entry = "none"
    /\ wargs = NoWArgs
    /\ args = NoArgs
    /\ person_gcs_uri = NoneRef
    /\ product_gcs_uri = NoneRef
    /\ response = NoResponse
    /\ i = 0
    /\ gcs_uris = <<>>
    /\ outcome = NoOutcome
    /\ wout = NoWOutcome
    /\ events = <<>>
    /\ uuidCtr = 0
    /\ written = <<>>
    /\ ncalls = 0

\* a new frame of generate_vto_image with parameters a
Enter(a) ==
    /\ args' = a
    /\ person_gcs_uri' = NoneRef
    /\ product_gcs_uri' = NoneRef
    /\ response' = NoResponse
    /\ i' = 0
    /\ gcs_uris' = <<>>
    /\ outcome' = NoOutcome
    /\ wout' = NoWOutcome
    /\ events' = << [op |-> "generate_vto_image", args |-> a] >>
    /\ pc' = "convert_person"
    /\ ncalls' = ncalls + 1
    /\ UNCHANGED <<uuidCtr, written>>

\* an exception leaves generate_vto_image
Raise(kind) ==
    /\ outcome' = [kind |-> "raise", value |-> <<>>, error |-> kind]
    /\ pc' = IF entry = "call_virtual_try_on" THEN "unwind" ELSE "done"

\* ---------------------------------------------------------------- actions
\* the caller invokes generate_vto_image directly
CallGenerate ==
    /\ pc \in {"idle", "done"}
    /\ ncalls < MaxCalls
    /\ \E p \in References, q \in References, n \in SampleCounts, s \in BaseSteps :
          Enter([person_gcs_url |-> p, product_gcs_url |-> q,
                 sample_count |-> n, base_steps |-> s])
    /\ entry' = "generate_vto_image"
    /\ wargs' = NoWArgs

\* the caller invokes call_virtual_try_on, which calls generate_vto_image
CallVirtualTryOn ==
    /\ pc \in {"idle", "done"}
    /\ ncalls < MaxCalls
    /\ \E p \in References, q \in References, n \in SampleArgs :
          /\ wargs' = [person_image_uri |-> p, product_image_uri |-> q,
                        sample_count |-> n]
          /\ Enter(InnerArgs(p, q, BindDefault(n, DefaultSampleCount)))
    /\ entry' = "call_virtual_try_on"

\* person_gcs_uri = https_url_to_gcs_uri(person_gcs_url)
ConvertPerson ==
    /\ pc = "convert_person"
    /\ LET ok == Recognized(args.person_gcs_url)
           res == IF ok THEN https_url_to_gcs_uri(args.person_gcs_url) ELSE NoneRef
       IN /\ events' = Append(events, [op |-> "https_url_to_gcs_uri",
                                       arg |-> args.person_gcs_url,
                                       ok |-> ok, res |-> res])
          /\ IF ok
             THEN /\ person_gcs_uri' = res
                  /\ pc' = "convert_product"
                  /\ UNCHANGED outcome
             ELSE /\ Raise(ConversionError)
                  /\ UNCHANGED person_gcs_uri
    /\ UNCHANGED <<entry, wargs, args, product_gcs_uri, response, i, gcs_uris,
                   wout, uuidCtr, written, ncalls>>

\* product_gcs_uri = https_url_to_gcs_uri(product_gcs_url)
ConvertProduct_unconverted ==
    /\ pc = "convert_product"
    /\ product_gcs_uri' = args.product_gcs_url
    /\ pc' = "recontext_image"
    /\ UNCHANGED <<entry, wargs, args, person_gcs_uri, response, i, gcs_uris,
                   outcome, wout, events, uuidCtr, written, ncalls>>

ConvertProduct ==
    /\ pc = "convert_product"
    /\ LET ok == Recognized(args.product_gcs_url)
           res == IF ok THEN https_url_to_gcs_uri(args.product_gcs_url) ELSE NoneRef
       IN /\ events' = Append(events, [op |-> "https_url_to_gcs_uri",
                                       arg |-> args.product_gcs_url,
                                       ok |-> ok, res |-> res])
          /\ IF ok
             THEN /\ product_gcs_uri' = res
                  /\ pc' = "recontext_image"
                  /\ UNCHANGED outcome
             ELSE /\ Raise(ConversionError)
                  /\ UNCHANGED product_gcs_uri
    /\ UNCHANGED <<entry, wargs, args, person_gcs_uri, response, i, gcs_uris,
                   wout, uuidCtr, written, ncalls>>

\* response = client.models.recontext_image(...)
RecontextImage ==
    /\ pc = "recontext_image"
    /\ LET req == RecontextRequest(person_gcs_uri, product_gcs_uri,
                                   args.base_steps, args.sample_count)
       IN \/ \E resp \in ServiceResponses :
                /\ events' = Append(events, [op |-> "recontext_image",
                                             request |-> req, ok |-> TRUE,
                                             response |-> resp])
                /\ response' = resp
                /\ pc' = "check_images"
                /\ UNCHANGED outcome
          \/ /\ events' = Append(events, [op |-> "recontext_image",
                                          request |-> req, ok |-> FALSE,
                                          response |-> NoResponse])
             /\ Raise(RemoteServiceError)
             /\ UNCHANGED response
    /\ UNCHANGED <<entry, wargs, args, person_gcs_uri, product_gcs_uri, i,
                   gcs_uris, wout, uuidCtr, written, ncalls>>

\* gcs_uris = []; if not response.generated_images: raise ValueError(...)
CheckImages ==
    /\ pc = "check_images"
    /\ gcs_uris' = <<>>
    /\ IF NoImages(response)
       THEN Raise(EmptyResultError)
       ELSE /\ pc' = "store_loop"
            /\ UNCHANGED outcome
    /\ i' = 0
    /\ UNCHANGED <<entry, wargs, args, person_gcs_uri, product_gcs_uri,
                   response, wout, events, uuidCtr, written, ncalls>>

\* one iteration of: for i, generated_image in enumerate(...)
StoreImage_continue ==
    /\ pc = "store_loop"
    /\ i < Len(response.images)
    /\ LET generated_image == response.images[i + 1]
           unique_id == uuid4(uuidCtr + 1, i)
           file_name == FileName(unique_id, i)
           gcs_uri == store_to_gcs(ResultFolder, file_name)
       IN /\ uuidCtr' = uuidCtr + 1
          /\ written' = Append(written, file_name)
          /\ \E ok \in BOOLEAN :
                /\ events' = Append(events, [op |-> "store_to_gcs",
                                             folder |-> ResultFolder,
                                             file_name |-> file_name,
                                             mime_type |-> ResultMime,
                                             contents |-> generated_image.data,
                                             decode |-> FALSE,
                                             ok |-> ok,
                                             uri |-> gcs_uri])
                /\ IF ok
                   THEN /\ gcs_uris' = Collect(gcs_uris, gcs_uri)
                        /\ i' = i + 1
                        /\ UNCHANGED <<pc, outcome>>
                   ELSE /\ i' = i + 1
                        /\ UNCHANGED <<gcs_uris, pc, outcome>>
    /\ UNCHANGED <<entry, wargs, args, person_gcs_uri, product_gcs_uri,
                   response, wout, ncalls>>

StoreImage ==
    /\ pc = "store_loop"
    /\ i < Len(response.images)
    /\ LET generated_image == response.images[i + 1]
           unique_id == uuid4(uuidCtr + 1, i)
           file_name == FileName(unique_id, i)
           gcs_uri == store_to_gcs(ResultFolder, file_name)
       IN /\ uuidCtr' = uuidCtr + 1
          /\ written' = Append(written, file_name)
          /\ \E ok \in BOOLEAN :
                /\ events' = Append(events, [op |-> "store_to_gcs",
                                             folder |-> ResultFolder,
                                             file_name |-> file_name,
                                             mime_type |-> ResultMime,
                                             contents |-> generated_image.data,
                                             decode |-> FALSE,
                                             ok |-> ok,
                                             uri |-> gcs_uri])
                /\ IF ok
                   THEN /\ gcs_uris' = Collect(gcs_uris, gcs_uri)
                        /\ i' = i + 1
                        /\ UNCHANGED <<pc, outcome>>
                   ELSE /\ Raise(StorageWriteError)
                        /\ UNCHANGED <<gcs_uris, i>>
    /\ UNCHANGED <<entry, wargs, args, person_gcs_uri, product_gcs_uri,
                   response, wout, ncalls>>

\* return gcs_uris
ReturnUris ==
    /\ pc = "store_loop"
    /\ i = Len(response.images)
    /\ outcome' = [kind |-> "return", value |-> gcs_uris, error |-> NoError]
    /\ pc' = IF entry = "call_virtual_try_on" THEN "wrap" ELSE "done"
    /\ UNCHANGED <<entry, wargs, args, person_gcs_uri, product_gcs_uri,
                   response, i, gcs_uris, wout, events, uuidCtr, written, ncalls>>

\* predictions = [...]; mock_response = SimpleNamespace(...); return
WrapResult ==
    /\ pc = "wrap"
    /\ wout' = [kind |-> "return",
                value |-> [predictions |-> Predictions(outcome.value)],
                error |-> NoError]
    /\ pc' = "done"
    /\ UNCHANGED <<entry, wargs, args, person_gcs_uri, product_gcs_uri,
                   response, i, gcs_uris, outcome, events, uuidCtr, written,
                   ncalls>>

\* the exception of generate_vto_image passes through call_virtual_try_on
Unwind_swallow ==
    /\ pc = "unwind"
    /\ wout' = [kind |-> "return", value |-> NoEnvelope, error |-> NoError]
    /\ pc' = "done"
    /\ UNCHANGED <<entry, wargs, args, person_gcs_uri, product_gcs_uri,
                   response, i, gcs_uris, outcome, events, uuidCtr, written,
                   ncalls>>

Unwind ==
    /\ pc = "unwind"
    /\ wout' = [kind |-> "raise", value |-> NoEnvelope, error |-> outcome.error]
    /\ pc' = "done"
    /\ UNCHANGED <<entry, wargs, args, person_gcs_uri, product_gcs_uri,
                   response, i, gcs_uris, outcome, events, uuidCtr, written,
                   ncalls>>

Next ==
    \/ CallGenerate
    \/ CallVirtualTryOn
    \/ ConvertPerson
    \/ ConvertProduct
    \/ RecontextImage
    \/ CheckImages
    \/ StoreImage
    \/ ReturnUris
    \/ WrapResult
    \/ Unwind

Spec == Init /\ [][Next]_vars

\* ------------------------------------------------- views of the event log
IsConversion(e) == e.op = "https_url_to_gcs_uri"
IsService(e) == e.op = "recontext_image"
IsWrite(e) == e.op = "store_to_gcs"
IsEntry(e) == e.op = "generate_vto_image"

ConversionEvents == SelectSeq(events, IsConversion)
ServiceEvents == SelectSeq(events, IsService)
WriteEvents == SelectSeq(events, IsWrite)
EntryEvents == SelectSeq(events, IsEntry)

\* positions in the log
ServicePos == { k \in 1..Len(events) : IsService(events[k]) }
WritePos == { k \in 1..Len(events) : IsWrite(events[k]) }
ConversionPos == { k \in 1..Len(events) : IsConversion(events[k]) }

Finished == outcome.kind # "none"
ValidPair == Recognized(args.person_gcs_url) /\ Recognized(args.product_gcs_url)
ServiceAnswered == Len(ServiceEvents) > 0 /\ ServiceEvents[1].ok
AllWritesOk == \A k \in 1..Len(WriteEvents) : WriteEvents[k].ok
NumImages(resp) == IF resp.none THEN 0 ELSE Len(resp.images)

\* ------------------------------------------------------------------ claims
\* C1: for a valid reference pair, a service answer and no failed write,
\* generate_vto_image returns exactly as many URIs as the answer has images;
\* an answer with no image ends in EmptyResultError, and no return is empty.
C1_LengthEqualsImages ==
    /\ (Finished /\ ValidPair /\ ServiceAnswered /\ AllWritesOk) =>
          LET n == NumImages(ServiceEvents[1].response)
          IN IF n = 0
             THEN outcome.kind = "raise" /\ outcome.error = EmptyResultError
             ELSE outcome.kind = "return" /\ Len(outcome.value) = n
    /\ (outcome.kind = "return" => Len(outcome.value) > 0)

C1_Witness ==
    /\ outcome.kind = "return"
    /\ Len(outcome.value) = MaxImages
    /\ NumImages(ServiceEvents[1].response) = MaxImages

\* C2: entry k of the returned sequence is the URI returned by the k-th
\* storage write, and that write persisted the bytes of the k-th image of
\* the service response under positional index k-1.
C2_OrderPreserved ==
    outcome.kind = "return" =>
        /\ Len(WriteEvents) = Len(outcome.value)
        /\ \A k \in 1..Len(outcome.value) :
              /\ outcome.value[k] = WriteEvents[k].uri
              /\ WriteEvents[k].ok
              /\ WriteEvents[k].file_name.index = k - 1
              /\ WriteEvents[k].contents = ServiceEvents[1].response.images[k].data

C2_Witness ==
    /\ outcome.kind = "return"
    /\ Len(outcome.value) = 3
    /\ WriteEvents[1].contents # WriteEvents[2].contents
    /\ outcome.value[1] # outcome.value[3]

\* C3: a successful call_virtual_try_on yields an envelope with the single
\* field predictions, as long as the inner result, whose k-th record has
\* exactly the key gcsUri holding the k-th URI of the inner result.
C3_EnvelopeShape ==
    wout.kind = "return" =>
        /\ outcome.kind = "return"
        /\ DOMAIN wout.value = {"predictions"}
        /\ Len(wout.value.predictions) = Len(outcome.value)
        /\ \A k \in 1..Len(outcome.value) :
              /\ DOMAIN wout.value.predictions[k] = {"gcsUri"}
              /\ wout.value.predictions[k].gcsUri = outcome.value[k]

C3_Witness ==
    /\ wout.kind = "return"
    /\ Len(wout.value.predictions) = 2
    /\ wout.value.predictions[1] # wout.value.predictions[2]

\* C4: when the service answers with zero images, no storage write is ever
\* made in that invocation, nothing is returned, and the invocation ends in
\* EmptyResultError.
C4_EmptyResultNoWrites ==
    (ServiceAnswered /\ NumImages(ServiceEvents[1].response) = 0) =>
        /\ Len(WriteEvents) = 0
        /\ outcome.kind # "return"
        /\ Finished => (outcome.kind = "raise" /\ outcome.error = EmptyResultError)
        /\ pc \notin {"store_loop", "wrap"}

C4_Witness ==
    /\ ServiceAnswered
    /\ ~ServiceEvents[1].response.none
    /\ Len(ServiceEvents[1].response.images) = 0
    /\ outcome.kind = "raise"
    /\ outcome.error = EmptyResultError

\* C5: a failed storage write is the last write of its invocation: the k-th
\* write failing means k-1 successful writes before it (for images 0..k-2),
\* no write after it, StorageWriteError raised and no sequence returned.
C5_AllOrNothing ==
    \A k \in 1..Len(WriteEvents) :
        ~WriteEvents[k].ok =>
            /\ k = Len(WriteEvents)
            /\ WriteEvents[k].file_name.index = k - 1
            /\ \A j \in 1..(k - 1) :
                  WriteEvents[j].ok /\ WriteEvents[j].file_name.index = j - 1
            /\ outcome.kind = "raise"
            /\ outcome.error = StorageWriteError
            /\ pc \in {"unwind", "done"}

C5_Witness ==
    /\ NumImages(response) = 3
    /\ Len(WriteEvents) = 2
    /\ WriteEvents[1].ok
    /\ ~WriteEvents[2].ok
    /\ outcome.kind = "raise"
    /\ pc = "done"

\* C6: with an unrecognized person or product reference the invocation
\* makes no service call and no storage write, and ends in ConversionError.
C6_ConversionFirst ==
    (pc # "idle" /\ ~ValidPair) =>
        /\ Len(ServiceEvents) = 0
        /\ Len(WriteEvents) = 0
        /\ pc \in {"convert_person", "convert_product", "unwind", "done"}
        /\ Finished => (outcome.kind = "raise" /\ outcome.error = ConversionError)

C6_Witness ==
    /\ Recognized(args.person_gcs_url)
    /\ ~Recognized(args.product_gcs_url)
    /\ outcome.kind = "raise"
    /\ outcome.error = ConversionError
    /\ Len(ConversionEvents) = 2

\* C7: over all invocations no two storage writes are given the same
\* generated identifier, nor the same file name.
C7_NoIdentifierCollision ==
    \A p \in 1..Len(written) : \A q \in 1..Len(written) :
        p # q => /\ written[p].unique_id # written[q].unique_id
                 /\ written[p] # written[q]

C7_Witness ==
    /\ ncalls = 2
    /\ Len(written) >= 3
    /\ \E p \in 1..Len(written) : \E q \in 1..Len(written) :
          p < q /\ written[p].index = 1 /\ written[q].index = 1

\* C8: an invocation of call_virtual_try_on enters generate_vto_image exactly
\* once, with base_steps 32, the caller's sample_count (1 when left out) and
\* the caller's two references as given.
C8_InnerCallArguments ==
    entry = "call_virtual_try_on" =>
        /\ Len(EntryEvents) = 1
        /\ EntryEvents[1].args.base_steps = 32
        /\ EntryEvents[1].args.sample_count =
              (IF wargs.sample_count.given THEN wargs.sample_count.value ELSE 1)
        /\ EntryEvents[1].args.person_gcs_url = wargs.person_image_uri
        /\ EntryEvents[1].args.product_gcs_url = wargs.product_image_uri
        /\ args = EntryEvents[1].args

C8_Witness ==
    /\ entry = "call_virtual_try_on"
    /\ pc = "done"
    /\ ~wargs.sample_count.given
    /\ wargs.person_image_uri = NoneRef
    /\ args.sample_count = 1

\* C9: when generate_vto_image fails inside call_virtual_try_on, the wrapper
\* fails with the same error kind and returns no envelope.
C9_FailurePropagates ==
    (entry = "call_virtual_try_on" /\ pc = "done" /\ outcome.kind = "raise") =>
        /\ wout.kind = "raise"
        /\ wout.error = outcome.error
        /\ wout.error \in {ConversionError, RemoteServiceError,
                           EmptyResultError, StorageWriteError}

C9_Witness ==
    /\ entry = "call_virtual_try_on"
    /\ pc = "done"
    /\ wout.kind = "raise"
    /\ wout.error = StorageWriteError
    /\ Len(gcs_uris) = 1

\* C10: in every invocation both conversions precede the service call, the
\* service is called at most once with the converted person image, one
\* converted product image, the caller's step count and output count, every
\* write follows the service answer, and the j-th write carries index j-1
\* and the bytes of the image at that index.
C10_StepOrder ==
    /\ Cardinality(ServicePos) <= 1
    /\ \A k \in ServicePos :
          /\ k = 4
          /\ IsConversion(events[2]) /\ events[2].ok
          /\ events[2].arg = args.person_gcs_url
          /\ IsConversion(events[3]) /\ events[3].ok
          /\ events[3].arg = args.product_gcs_url
          /\ events[k].request.person_image.location = events[2].res
          /\ Len(events[k].request.product_images) = 1
          /\ events[k].request.product_images[1].product_image.location = events[3].res
          /\ events[k].request.base_steps = args.base_steps
          /\ events[k].request.number_of_images = args.sample_count
          /\ events[k].request.model = VTO_MODEL_ID
    /\ \A w \in WritePos :
          /\ \E k \in ServicePos : k < w /\ events[k].ok
          /\ \A c \in ConversionPos : c < w
    /\ \A j \in 1..Len(WriteEvents) :
          /\ WriteEvents[j].file_name.index = j - 1
          /\ WriteEvents[j].contents = ServiceEvents[1].response.images[j].data
          /\ WriteEvents[j].folder = ResultFolder
          /\ WriteEvents[j].mime_type = ResultMime
          /\ ~WriteEvents[j].decode

C10_Witness ==
    /\ outcome.kind = "return"
    /\ Len(WriteEvents) = 2
    /\ WriteEvents[1].contents # WriteEvents[2].contents
    /\ args.person_gcs_url.form = "https"

====
